---- MODULE Spec2Model ----
(***************************************************************************)
(* A model of pukka's validator (src/src/validator.ts) and of the helpers  *)
(* it shares with the issues / form-helper navigator (helper.ts).          *)
(*                                                                         *)
(* JavaScript values are tagged records [t, v].  Field names and paths are *)
(* sequences of one-character tokens (a decimal numeral is one token), so  *)
(* that path building and the index-stripping regular expression are       *)
(* computed rather than assumed.  Message strings are records of the parts *)
(* the template interpolates.                                              *)
(***************************************************************************)
EXTENDS Integers, Sequences, FiniteSets, TLC

(* ------------------------------ bounds -------------------------------- *)
\* longest short array offered as an input (besides the two long ones)
MaxLen == 2
\* largest explicit options.arrayLimit offered
MaxLimit == 2
\* most pushes one callback run makes
MaxPush == 1
\* largest numeral the numeric parser knows
MaxNumeral == 9

(* --------------------------- program constants ------------------------ *)
DEFAULT_ARRAY_LIMIT == 50

(* ------------------------------ JS values ----------------------------- *)
Undef == [t |-> "undefined"]
Null == [t |-> "null"]
Str(s) == [t |-> "string", v |-> s]
Num(n) == [t |-> "number", v |-> n]
Bool(b) == [t |-> "boolean", v |-> b]
Big(n) == [t |-> "bigint", v |-> n]
FileV(name) == [t |-> "file", v |-> name]
Arr(seq) == [t |-> "array", v |-> seq]
Obj(f) == [t |-> "object", v |-> f]
\* an instance of a non-plain class named cls
Inst(cls) == [t |-> "instance", v |-> cls]
\* an Error carrying a message
Err(m) == [t |-> "error", v |-> m]
\* an object without prototype: converting it to a primitive throws
NullProto == [t |-> "nullproto"]

EmptyObj == Obj(<<>>)
EmptyArr == Arr(<<>>)
NoExc == [t |-> "none"]

\* value == null
IsNullish(x) == x.t \in {"undefined", "null"}

\* the typeof operator
TypeOf(x) ==
  CASE x.t = "undefined" -> "undefined"
    [] x.t \in {"string", "number", "boolean", "bigint"} -> x.t
    [] OTHER -> "object"

\* container[key] = val : an own property of an object, a slot of an array
SetKey(container, key, val) ==
  IF container.t = "array"
  THEN IF key = Len(container.v)
       THEN Arr(Append(container.v, val))
       ELSE Arr([container.v EXCEPT ![key + 1] = val])
  ELSE Obj((key :> val) @@ container.v)

\* container[key], undefined when there is no such property
GetKey(container, key) ==
  IF container.t = "array"
  THEN IF key \in 0 .. (Len(container.v) - 1) THEN container.v[key + 1] ELSE Undef
  ELSE IF key \in DOMAIN container.v THEN container.v[key] ELSE Undef

(* helper.ts *)
isObject(value) == value.t = "object"

isArray(value) == value.t = "array"

(* ------------------------- conversions of JS -------------------------- *)
TypeError == Err("Cannot convert object to primitive value")

\* String(x): [v |-> the string, exc |-> what it threw]
RECURSIVE StringOf(_)
RECURSIVE JoinOf(_, _)
JoinOf(seq, i) ==
  IF i > Len(seq) THEN [v |-> "", exc |-> NoExc]
  ELSE LET head == IF IsNullish(seq[i]) THEN [v |-> "", exc |-> NoExc]
                   ELSE StringOf(seq[i])
           rest == JoinOf(seq, i + 1)
       IN IF head.exc # NoExc THEN head
          ELSE IF rest.exc # NoExc THEN rest
          ELSE [v |-> IF i < Len(seq) THEN head.v \o "," \o rest.v ELSE head.v,
                exc |-> NoExc]

StringOf(x) ==
  CASE x.t = "string" -> [v |-> x.v, exc |-> NoExc]
    [] x.t \in {"number", "bigint"} -> [v |-> ToString(x.v), exc |-> NoExc]
    [] x.t = "boolean" -> [v |-> IF x.v THEN "true" ELSE "false", exc |-> NoExc]
    [] x.t = "undefined" -> [v |-> "undefined", exc |-> NoExc]
    [] x.t = "null" -> [v |-> "null", exc |-> NoExc]
    [] x.t = "array" -> JoinOf(x.v, 1)
    [] x.t = "file" -> [v |-> "[object File]", exc |-> NoExc]
    [] x.t = "error" -> [v |-> "Error: " \o x.v, exc |-> NoExc]
    [] x.t = "nullproto" -> [v |-> "", exc |-> TypeError]
    [] OTHER -> [v |-> "[object Object]", exc |-> NoExc]

\* the number a string denotes: [nan, n]
ParseNumeral(s) ==
  IF s = "" THEN [nan |-> FALSE, n |-> 0]
  ELSE IF \E n \in 0 .. MaxNumeral : ToString(n) = s
       THEN [nan |-> FALSE, n |-> CHOOSE n \in 0 .. MaxNumeral : ToString(n) = s]
       ELSE [nan |-> TRUE, n |-> 0]

\* Number(x): [nan, n, exc]
NumberOf(x) ==
  CASE x.t \in {"number", "bigint"} -> [nan |-> FALSE, n |-> x.v, exc |-> NoExc]
    [] x.t = "boolean" -> [nan |-> FALSE, n |-> IF x.v THEN 1 ELSE 0, exc |-> NoExc]
    [] x.t = "null" -> [nan |-> FALSE, n |-> 0, exc |-> NoExc]
    [] x.t = "undefined" -> [nan |-> TRUE, n |-> 0, exc |-> NoExc]
    [] OTHER -> LET s == StringOf(x)
                IN IF s.exc # NoExc THEN [nan |-> TRUE, n |-> 0, exc |-> s.exc]
                   ELSE LET p == ParseNumeral(s.v)
                        IN [nan |-> p.nan, n |-> p.n, exc |-> NoExc]

\* BigInt(x): [ok, n]; ok is FALSE where BigInt throws
BigIntOf(x) ==
  CASE x.t \in {"number", "bigint"} -> [ok |-> TRUE, n |-> x.v]
    [] x.t = "boolean" -> [ok |-> TRUE, n |-> IF x.v THEN 1 ELSE 0]
    [] x.t \in {"null", "undefined"} -> [ok |-> FALSE, n |-> 0]
    [] OTHER -> LET s == StringOf(x)
                IN IF s.exc # NoExc THEN [ok |-> FALSE, n |-> 0]
                   ELSE LET p == ParseNumeral(s.v)
                        IN [ok |-> ~p.nan, n |-> p.n]

(* helper.ts: primitives to string *)
stringify(value) ==
  IF IsNullish(value) \/ TypeOf(value) = "object" THEN "" ELSE StringOf(value).v

(* ------------------------ strings of tokens --------------------------- *)
\* the first position of tok in s at or after i, 0 when there is none
RECURSIVE IndexOf(_, _, _)
IndexOf(s, tok, i) ==
  IF i > Len(s) THEN 0 ELSE IF s[i] = tok THEN i ELSE IndexOf(s, tok, i + 1)

\* s.replace(tok, ""): the first occurrence only
RemoveFirst(s, tok) ==
  LET i == IndexOf(s, tok, 1)
  IN IF i = 0 THEN s ELSE SubSeq(s, 1, i - 1) \o SubSeq(s, i + 1, Len(s))

\* s.split(tok)
RECURSIVE Split(_, _)
Split(s, tok) ==
  LET i == IndexOf(s, tok, 1)
  IN IF i = 0 THEN <<s>>
     ELSE <<SubSeq(s, 1, i - 1)>> \o Split(SubSeq(s, i + 1, Len(s)), tok)

Numerals == {ToString(n) : n \in 0 .. DEFAULT_ARRAY_LIMIT}
LowerCase == {"a", "b", "c", "d", "e", "f", "g", "k", "n", "o", "s"}
UpperCase == {"A", "B", "C", "D", "E", "F", "G", "K", "N", "O", "S"}
ToUpper(c) ==
  CASE c = "a" -> "A" [] c = "b" -> "B" [] c = "c" -> "C" [] c = "d" -> "D"
    [] c = "e" -> "E" [] c = "f" -> "F" [] c = "g" -> "G" [] c = "k" -> "K"
    [] c = "n" -> "N" [] c = "o" -> "O" [] c = "s" -> "S" [] OTHER -> c

\* the position after \s* starting at i
RECURSIVE SkipSpaces(_, _)
SkipSpaces(s, i) ==
  IF i <= Len(s) /\ s[i] = " " THEN SkipSpaces(s, i + 1) ELSE i

\* the position after \d* starting at i
RECURSIVE SkipDigits(_, _)
SkipDigits(s, i) ==
  IF i <= Len(s) /\ s[i] \in Numerals THEN SkipDigits(s, i + 1) ELSE i

\* the position after a match of \[\s*(\d+)\s*\] starting at i, 0 when none
MatchIndex(s, i) ==
  IF i > Len(s) \/ s[i] # "[" THEN 0
  ELSE LET a == SkipSpaces(s, i + 1)
           b == SkipDigits(s, a)
           c == SkipSpaces(s, b)
       IN IF b > a /\ c <= Len(s) /\ s[c] = "]" THEN c + 1 ELSE 0

(* helper.ts: key for translations: foo[1].bar => foo.bar *)
RECURSIVE getKeyFrom(_, _)
getKeyFrom(path, i) ==
  IF i > Len(path) THEN <<>>
  ELSE LET j == MatchIndex(path, i)
       IN IF j # 0 THEN getKeyFrom(path, j)
          ELSE <<path[i]>> \o getKeyFrom(path, i + 1)

getKey(path) == getKeyFrom(path, 1)

(* validator.ts: the camelCase replacement of getDisplayName *)
RECURSIVE SpaceCamel(_, _)
SpaceCamel(s, i) ==
  IF i > Len(s) THEN <<>>
  ELSE IF i < Len(s) /\ s[i] \in LowerCase /\ s[i + 1] \in UpperCase
       THEN <<s[i], " ", s[i + 1]>> \o SpaceCamel(s, i + 2)
       ELSE <<s[i]>> \o SpaceCamel(s, i + 1)

getDisplayName(path) ==
  LET arr == Split(path, ".")
      name == arr[Len(arr)]
      first == IF name = <<>> THEN <<>> ELSE <<ToUpper(name[1])>>
      rest == SpaceCamel(SubSeq(name, 2, Len(name)), 1)
  IN first \o rest

(* --------------------------- schema normalizer ------------------------ *)
NoAlias == <<"\\undefined">>

Prim(p) == [k |-> "prim", p |-> p]
ArrayOf(ty) == [k |-> "array", of |-> ty]
ObjectOf(fields) == [k |-> "object", fields |-> fields]
Field(key, ty) == [key |-> key, type |-> ty]

\* an entry that forgets the alias
parseKey_noAlias(key, propertyType, arrayType) ==
  [key |-> Split(RemoveFirst(key, "?"), ":")[1],
   alias |-> NoAlias,
   type |-> IF arrayType THEN [k |-> "array", of |-> propertyType]
            ELSE propertyType,
   optional |-> key # <<>> /\ key[Len(key)] = "?"]

\* one entry of parseSchema's map, given the parsed element or field type
parseKey(key, propertyType, arrayType) ==
  LET optional == key # <<>> /\ key[Len(key)] = "?"
      parts == Split(RemoveFirst(key, "?"), ":")
  IN [key |-> parts[1],
      alias |-> IF Len(parts) > 1 THEN parts[2] ELSE NoAlias,
      type |-> IF arrayType THEN [k |-> "array", of |-> propertyType]
               ELSE propertyType,
      optional |-> optional]

RECURSIVE parseSchema(_)
RECURSIVE parseEntries(_, _)
parseEntries(fields, i) ==
  IF i > Len(fields) THEN <<>>
  ELSE LET type == fields[i].type
           isArr == type.k = "array"
           actualType == IF isArr THEN type.of ELSE type
           isNestedType == actualType.k = "object"
           propertyType == IF isNestedType THEN parseSchema(actualType.fields)
                           ELSE actualType
       IN <<parseKey(fields[i].key, propertyType, isArr)>>
            \o parseEntries(fields, i + 1)

parseSchema(fields) == [k |-> "object", props |-> parseEntries(fields, 1)]

(* ------------------------------ coercion ------------------------------ *)
\* TRUE.includes(input), FALSE.includes(input)
InTRUE(input) ==
  \/ input.t = "string" /\ input.v \in {"true", "1"}
  \/ input.t = "number" /\ input.v = 1

InFALSE(input) ==
  \/ input.t = "string" /\ input.v \in {"false", "0"}
  \/ input.t = "number" /\ input.v = 0

\* the branch type === "number" that rejects every string
coerceNumber_noParse(input) ==
  [v |-> IF input.t = "number" THEN input ELSE Undef, exc |-> NoExc]

\* the branch type === "number"
coerceNumber(input) ==
  IF input.t = "number" THEN [v |-> input, exc |-> NoExc]
  ELSE IF NumberOf(input).exc # NoExc THEN [v |-> Undef, exc |-> NumberOf(input).exc]
  ELSE [v |-> IF NumberOf(input).nan THEN Undef ELSE Num(NumberOf(input).n),
        exc |-> NoExc]

coercePrimitive(input, type) ==
  CASE type = "string" ->
         IF input.t = "string" THEN [v |-> input, exc |-> NoExc]
         ELSE LET s == StringOf(input)
              IN IF s.exc # NoExc THEN [v |-> Undef, exc |-> s.exc]
                 ELSE [v |-> Str(s.v), exc |-> NoExc]
    [] type = "boolean" ->
         [v |-> IF input.t = "boolean" THEN input
                ELSE IF InTRUE(input) THEN Bool(TRUE)
                ELSE IF InFALSE(input) THEN Bool(FALSE)
                ELSE Undef,
          exc |-> NoExc]
    [] type = "number" -> coerceNumber(input)
    [] type = "bigint" ->
         IF input.t = "bigint" THEN [v |-> input, exc |-> NoExc]
         ELSE LET value == BigIntOf(input)
              IN [v |-> IF value.ok THEN Big(value.n) ELSE Undef, exc |-> NoExc]
    [] OTHER ->
         [v |-> IF input.t = "file" THEN input ELSE Undef, exc |-> NoExc]

\* a coerce that expects an array to be given as one
coerce_noWrap(input, type) ==
  IF type = "object"
  THEN [v |-> IF isObject(input) THEN input ELSE Undef, exc |-> NoExc]
  ELSE IF type = "array"
  THEN [v |-> IF isArray(input) THEN input ELSE Undef, exc |-> NoExc]
  ELSE coercePrimitive(
         IF isArray(input) /\ Len(input.v) = 1 THEN input.v[1] ELSE input, type)

\* [v |-> the coerced value, undefined on failure; exc |-> what it threw]
coerce(input, type) ==
  IF type = "object"
  THEN [v |-> IF isObject(input) THEN input ELSE Undef, exc |-> NoExc]
  ELSE IF type = "array"
  THEN [v |-> IF isArray(input) THEN input ELSE Arr(<<input>>), exc |-> NoExc]
  ELSE coercePrimitive(
         IF isArray(input) /\ Len(input.v) = 1 THEN input.v[1] ELSE input, type)

\* a default that leaves a nested object empty
defaultValue_shallow(type) ==
  IF type.k = "prim"
  THEN CASE type.p = "string" -> Str("")
         [] type.p = "boolean" -> Bool(FALSE)
         [] type.p = "number" -> Num(0)
         [] type.p = "file" -> FileV("")
         [] OTHER -> Big(0)
  ELSE IF type.k = "array" THEN EmptyArr
  ELSE EmptyObj

RECURSIVE defaultValue(_)
RECURSIVE defaultEntries(_, _)
defaultEntries(props, i) ==
  IF i > Len(props) THEN <<>>
  ELSE (props[i].key :> defaultValue(props[i].type))
         @@ defaultEntries(props, i + 1)

\* defaultValue(property), which reads only property.type
defaultValue(type) ==
  IF type.k = "prim"
  THEN CASE type.p = "string" -> Str("")
         [] type.p = "boolean" -> Bool(FALSE)
         [] type.p = "number" -> Num(0)
         [] type.p = "file" -> FileV("")
         [] OTHER -> Big(0)
  ELSE IF type.k = "array" THEN EmptyArr
  ELSE Obj(defaultEntries(type.props, 1))

(* ------------------------ error message composer --------------------- *)
\* A message: the template (code, by) and the parts it interpolates.
Msg(code, by, key, a, b) == [code |-> code, by |-> by, key |-> key, a |-> a, b |-> b]

\* The caller's errorMessage hook, by what it does when called:
\*   "none"      no hook was given
\*   "string"    returns a string built from its arguments
\*   "undefined" returns undefined
\*   "exception" returns a string for key "" and code 'exception' only
\*   "throws"    throws
\*   "throwsOnField" throws for every code but 'exception', then undefined
HookThrows(override, code) ==
  \/ override = "throws"
  \/ override = "throwsOnField" /\ code # "exception"

HookReturnsString(override, key, code) ==
  \/ override = "string"
  \/ override = "exception" /\ key = <<>> /\ code = "exception"

HookError == Err("errorMessage failed")

\* error.message of whatever was thrown: [v, exc]
MessageOf(error) ==
  IF IsNullish(error)
  THEN [v |-> "", exc |-> Err("Cannot read properties of " \o error.t)]
  ELSE [v |-> IF error.t = "error" THEN error.v ELSE "undefined", exc |-> NoExc]

\* the parts of the descriptor and of the default template, per code
DescriptorA(code, inputOrException, expected) ==
  CASE code = "required" -> TypeOf(inputOrException)
    [] code = "type" -> expected
    [] code = "array" -> ToString(expected)
    [] OTHER -> ""

DescriptorB(code, inputOrException) ==
  CASE code = "type" ->
         IF stringify(inputOrException) = "" THEN TypeOf(inputOrException)
         ELSE stringify(inputOrException)
    [] code = "array" -> ToString(Len(inputOrException.v))
    [] OTHER -> ""

\* a composer that hands the hook the path with its indices
getErrorMessage_rawPath(path, code, inputOrException, override, expected) ==
  IF HookThrows(override, code)
  THEN [msg |-> Msg(code, "none", <<>>, "", ""), exc |-> HookError]
  ELSE IF HookReturnsString(override, path, code)
  THEN [msg |-> Msg(code, "override", path,
                    DescriptorA(code, inputOrException, expected),
                    DescriptorB(code, inputOrException)),
        exc |-> NoExc]
  ELSE IF code = "required"
  THEN [msg |-> Msg(code, "default", getDisplayName(getKey(path)), "", ""),
        exc |-> NoExc]
  ELSE IF code \in {"type", "array"}
  THEN [msg |-> Msg(code, "default", <<>>,
                    DescriptorA(code, inputOrException, expected),
                    DescriptorB(code, inputOrException)),
        exc |-> NoExc]
  ELSE IF MessageOf(inputOrException).exc # NoExc
  THEN [msg |-> Msg(code, "none", <<>>, "", ""),
        exc |-> MessageOf(inputOrException).exc]
  ELSE [msg |-> Msg(code, "default", <<>>, MessageOf(inputOrException).v, ""),
        exc |-> NoExc]

\* [msg |-> the message, exc |-> what composing it threw]
getErrorMessage(path, code, inputOrException, override, expected) ==
  LET key == getKey(path)
      a == DescriptorA(code, inputOrException, expected)
      b == DescriptorB(code, inputOrException)
      none == Msg(code, "none", <<>>, "", "")
  IN IF HookThrows(override, code) THEN [msg |-> none, exc |-> HookError]
     ELSE IF HookReturnsString(override, key, code)
     THEN [msg |-> Msg(code, "override", key, a, b), exc |-> NoExc]
     ELSE CASE code = "required" ->
                 [msg |-> Msg(code, "default", getDisplayName(key), "", ""),
                  exc |-> NoExc]
            [] code \in {"type", "array"} ->
                 [msg |-> Msg(code, "default", <<>>, a, b), exc |-> NoExc]
            [] OTHER ->
                 LET m == MessageOf(inputOrException)
                 IN IF m.exc # NoExc THEN [msg |-> none, exc |-> m.exc]
                    ELSE [msg |-> Msg(code, "default", <<>>, m.v, ""),
                          exc |-> NoExc]

\* an addError that puts the new message first
addError_front(errors, path, error, value) ==
  IF path \notin DOMAIN errors
  THEN (path :> [value |-> stringify(value), errors |-> <<error>>]) @@ errors
  ELSE [errors EXCEPT ![path].errors = <<error>> \o @]

(* helper.ts *)
addError(errors, path, error, value) ==
  IF path \notin DOMAIN errors
  THEN (path :> [value |-> stringify(value), errors |-> <<error>>]) @@ errors
  ELSE [errors EXCEPT ![path].errors = Append(@, error)]

(* ------------------------- recursive validator ------------------------ *)
\* options.arrayLimit is <<>> when absent, <<n>> when given
limitOf(options) ==
  IF options.arrayLimit = <<>> THEN DEFAULT_ARRAY_LIMIT ELSE options.arrayLimit[1]

\* a check that ignores the optional marker
missingIsError_always(optional) == TRUE

\* whether a missing input is an error (validator.ts: if (!optional))
missingIsError(optional) == ~optional

\* a render target that keeps the raw missing value for an array too
missingTarget_raw(type, input) == input

\* what the render target holds for a missing input
missingTarget(type, input) == IF type.k = "array" THEN EmptyArr ELSE input

\* what the safe target holds for a coerced primitive leaf
leafSafe(value, type) == defaultValue(type)

\* a limit check that is off by one
overLimit_atLimit(length, arrayLimit) == length >= arrayLimit

\* sourceArr.length > arrayLimit
overLimit(length, arrayLimit) == length > arrayLimit

\* the object a literal [] or {} creates for the render tree at a path: its
\* identity is the next one of the call
allocTarget(st, path) ==
  [st EXCEPT !.tid = (path :> st.next) @@ @, !.next = @ + 1]

\* the same for the safe tree
allocSafe(st, path) ==
  [st EXCEPT !.sid = (path :> st.next) @@ @, !.next = @ + 1]

\* one object stored in both trees
allocPair_one(st, path) ==
  [st EXCEPT !.tid = (path :> st.next) @@ @, !.sid = (path :> st.next) @@ @,
             !.next = @ + 1]

\* target[key] = [] and safeTarget[key] = [] (or {}): two objects
allocPair(st, path) == allocSafe(allocTarget(st, path), path)

\* the objects defaultValue(property) creates for the safe tree
RECURSIVE allocDefault(_, _, _)
RECURSIVE allocDefaults(_, _, _, _)
allocDefaults(st, path, props, j) ==
  IF j > Len(props) THEN st
  ELSE allocDefaults(allocDefault(st, path \o <<".">> \o props[j].key, props[j].type),
                     path, props, j + 1)

allocDefault(st, path, type) ==
  IF type.k = "prim" THEN st
  ELSE IF type.k = "array" THEN allocSafe(st, path)
  ELSE allocDefaults(allocSafe(st, path), path, type.props, 1)

\* the objects created when a missing or mistyped input is stored as t
allocStored(st, isRoot, path, t, type) ==
  IF isRoot \/ st.exc # NoExc THEN st
  ELSE allocDefault(IF isArray(t) THEN allocTarget(st, path) ELSE st, path, type)

\* target[key] = t; safeTarget[key] = s (skipped at the root)
store(st, isRoot, key, t, s) ==
  IF isRoot THEN st
  ELSE [st EXCEPT !.target = SetKey(@, key, t), !.safe = SetKey(@, key, s)]

\* addError(errors, path, m.msg, value), or the throw that composing m raised
reportMessage(st, path, m, value) ==
  IF m.exc # NoExc THEN [st EXCEPT !.exc = m.exc]
  ELSE [st EXCEPT !.errors = addError(@, path, m.msg, value)]

\* addError(errors, path, getErrorMessage(...), value)
report(st, path, code, input, override, expected, value) ==
  reportMessage(st, path, getErrorMessage(path, code, input, override, expected), value)

\* the assignments after a report, which an exception thrown by it skips
storeUnlessThrown(st, isRoot, key, t, s) ==
  IF st.exc # NoExc THEN st ELSE store(st, isRoot, key, t, s)

\* the container sub that the recursion filled, as target[key] and safeTarget[key]
attach(st, isRoot, key, sub) ==
  IF isRoot THEN sub
  ELSE [sub EXCEPT !.target = SetKey(st.target, key, sub.target),
                   !.safe = SetKey(st.safe, key, sub.safe)]

expectedOf(type) ==
  IF type.k = "array" THEN "array" ELSE IF type.k = "object" THEN "object" ELSE type.p

\* st = [target, safe, errors, exc, tid, sid, next]: the two containers
\* being filled, the error map, the exception that ended the pass (NoExc
\* while it runs), and the identities of the objects created so far
RECURSIVE validate(_, _, _, _, _)
RECURSIVE validateInput(_, _, _, _, _)
RECURSIVE validateCoerced(_, _, _, _, _, _)
RECURSIVE validateItems(_, _, _, _, _, _)
RECURSIVE validateFields(_, _, _, _, _, _)

\* the loop over the elements, from index i
validateItems(path, elemType, sourceArr, i, st, options) ==
  IF i >= Len(sourceArr.v) \/ st.exc # NoExc THEN st
  ELSE validateItems(path, elemType, sourceArr, i + 1,
         validate(path \o <<"[", ToString(i), "]">>,
                  [key |-> i, alias |-> NoAlias, optional |-> FALSE, type |-> elemType],
                  sourceArr, st, options),
         options)

\* the loop over the declared fields, from the j-th
validateFields(path, props, sourceObj, j, st, options) ==
  IF j > Len(props) \/ st.exc # NoExc THEN st
  ELSE validateFields(path, props, sourceObj, j + 1,
         validate(IF path = <<>> THEN props[j].key ELSE path \o <<".">> \o props[j].key,
                  props[j], sourceObj, st, options),
         options)

\* a validator that goes on into the elements of an array over the limit
validateCoerced_descend(path, property, st, options, input, c) ==
  IF c.exc # NoExc THEN [st EXCEPT !.exc = c.exc]
  ELSE IF IsNullish(c.v)
  THEN allocStored(
         storeUnlessThrown(
           report(st, path, "type", input, options.errorMessage,
                  expectedOf(property.type), input),
           path = <<>>, property.key, c.v, defaultValue(property.type)),
         path = <<>>, path, c.v, property.type)
  ELSE IF property.type.k = "prim"
  THEN store(st, FALSE, property.key, c.v, leafSafe(c.v, property.type))
  ELSE IF property.type.k = "array"
  THEN attach(st, FALSE, property.key,
              validateItems(path, property.type.of, c.v, 0,
                            IF overLimit(Len(c.v.v), limitOf(options))
                            THEN report(allocPair([st EXCEPT !.target = EmptyArr,
                                                             !.safe = EmptyArr], path),
                                        path, "array", c.v, options.errorMessage,
                                        limitOf(options), Undef)
                            ELSE allocPair([st EXCEPT !.target = EmptyArr,
                                                      !.safe = EmptyArr], path),
                            options))
  ELSE attach(st, path = <<>>, property.key,
              validateFields(path, property.type.props, c.v, 1,
                             IF path = <<>> THEN st
                             ELSE allocPair([st EXCEPT !.target = EmptyObj,
                                                       !.safe = EmptyObj], path),
                             options))

\* from "const value = coerce(input, expected)" on; c is coerce's outcome
validateCoerced(path, property, st, options, input, c) ==
  IF c.exc # NoExc THEN [st EXCEPT !.exc = c.exc]
  ELSE IF IsNullish(c.v)
  THEN allocStored(
         storeUnlessThrown(
           report(st, path, "type", input, options.errorMessage,
                  expectedOf(property.type), input),
           path = <<>>, property.key, c.v, defaultValue(property.type)),
         path = <<>>, path, c.v, property.type)
  ELSE IF property.type.k = "prim"
  THEN store(st, FALSE, property.key, c.v, leafSafe(c.v, property.type))
  ELSE IF property.type.k = "array"
  THEN IF overLimit(Len(c.v.v), limitOf(options))
       THEN report(allocPair(store(st, FALSE, property.key, EmptyArr, EmptyArr),
                             path),
                   path, "array", c.v, options.errorMessage, limitOf(options), Undef)
       ELSE attach(st, FALSE, property.key,
                   validateItems(path, property.type.of, c.v, 0,
                                 allocPair([st EXCEPT !.target = EmptyArr,
                                                      !.safe = EmptyArr], path),
                                 options))
  ELSE attach(st, path = <<>>, property.key,
              validateFields(path, property.type.props, c.v, 1,
                             IF path = <<>> THEN st
                             ELSE allocPair([st EXCEPT !.target = EmptyObj,
                                                       !.safe = EmptyObj], path),
                             options))

\* from "if (input == null)" on
validateInput(path, property, st, options, input) ==
  IF IsNullish(input)
  THEN allocStored(
         storeUnlessThrown(
           IF missingIsError(property.optional)
           THEN report(st, path, "required", input, options.errorMessage, "", input)
           ELSE st,
           path = <<>>, property.key,
           missingTarget(property.type, input), defaultValue(property.type)),
         path = <<>>, path, missingTarget(property.type, input), property.type)
  ELSE validateCoerced(path, property, st, options, input,
                       coerce(input, expectedOf(property.type)))

validate(path, property, source, st, options) ==
  validateInput(path, property, st, options,
                IF path = <<>> THEN source
                ELSE GetKey(source, IF property.alias = NoAlias THEN property.key
                                    ELSE property.alias))

(* --------------------------- validator factory ------------------------ *)
\* a FormData or URLSearchParams: its entries [key, value] in submission order
Flat(entries) == [t |-> "flat", v |-> entries]

\* input.getAll(key): the values under the key, in order
RECURSIVE getAllFrom(_, _, _)
getAllFrom(entries, key, i) ==
  IF i > Len(entries) THEN <<>>
  ELSE (IF entries[i].key = key THEN <<entries[i].value>> ELSE <<>>)
         \o getAllFrom(entries, key, i + 1)

getAll(input, key) == Arr(getAllFrom(input.v, key, 1))

\* key.replace(/\[\s*(\d+)\s*\]/g, ".$1") from position i on
RECURSIVE replaceIndex(_, _)
replaceIndex(key, i) ==
  IF i > Len(key) THEN <<>>
  ELSE IF MatchIndex(key, i) # 0
  THEN <<".">> \o SubSeq(key, SkipSpaces(key, i + 1),
                         SkipDigits(key, SkipSpaces(key, i + 1)) - 1)
         \o replaceIndex(key, MatchIndex(key, i))
  ELSE <<key[i]>> \o replaceIndex(key, i + 1)

\* a path that keeps the brackets of the key
pathOf_noRewrite(key) == Split(key, ".")

\* the segments dset walks: foo[0] => foo.0 => foo, 0
pathOf(key) == Split(replaceIndex(key, 1), ".")

\* keys[i] * 0 === 0: the segment reads as a number (the empty one reads as 0)
isNumericSegment(seg) == seg = <<>> \/ (Len(seg) = 1 /\ seg[1] \in Numerals)

segmentIndex(seg) ==
  IF seg = <<>> THEN 0 ELSE CHOOSE n \in 0 .. DEFAULT_ARRAY_LIMIT : ToString(n) = seg[1]

\* t[k] of dset: an element of an array, a property of an object
segmentGet(t, k) ==
  IF t.t = "array"
  THEN IF isNumericSegment(k) /\ k # <<>> THEN GetKey(t, segmentIndex(k)) ELSE Undef
  ELSE IF t.t = "object" THEN GetKey(t, k) ELSE Undef

\* t[k] = val of dset: an array grows holes up to the index; a name set on an
\* array is no element of it
segmentSet(t, k, val) ==
  IF t.t = "array"
  THEN IF isNumericSegment(k) /\ k # <<>>
       THEN IF segmentIndex(k) < Len(t.v)
            THEN SetKey(t, segmentIndex(k), val)
            ELSE Arr(t.v \o [j \in 1 .. (segmentIndex(k) - Len(t.v)) |-> Undef]
                         \o <<val>>)
       ELSE t
  ELSE IF t.t = "object" THEN SetKey(t, k, val) ELSE t

\* dset(t, keys, val) from segment i on: what is there is kept when it is an
\* object, else an array is built before a numeric segment, an object before
\* any other
RECURSIVE dsetFrom(_, _, _, _)
dsetFrom(t, keys, i, val) ==
  IF i = Len(keys) THEN segmentSet(t, keys[i], val)
  ELSE segmentSet(t, keys[i],
         dsetFrom(IF TypeOf(segmentGet(t, keys[i])) = "object"
                  THEN segmentGet(t, keys[i])
                  ELSE IF isNumericSegment(keys[i + 1]) THEN EmptyArr ELSE EmptyObj,
                  keys, i + 1, val))

dset(source, path, val) == dsetFrom(source, path, 1, val)

\* the loop over input.keys() from entry i on
RECURSIVE normalizeFrom(_, _, _)
normalizeFrom(input, i, source) ==
  IF i > Len(input.v) THEN source
  ELSE normalizeFrom(input, i + 1,
                     dset(source, pathOf(input.v[i].key), getAll(input, input.v[i].key)))

\* flat multi-valued sources become a nested object, plain values pass through
normalizeInput(input) ==
  IF input.t = "flat" THEN normalizeFrom(input, 1, EmptyObj) ELSE input

\* input?.constructor?.name ?? typeof input
constructorName(input) ==
  CASE input.t = "instance" -> input.v
    [] input.t = "string" -> "String"
    [] input.t = "number" -> "Number"
    [] input.t = "boolean" -> "Boolean"
    [] input.t = "bigint" -> "BigInt"
    [] input.t = "file" -> "File"
    [] input.t = "error" -> "Error"
    [] OTHER -> TypeOf(input)

\* a root check that records the error and lets the call go on
invalidInput_continue(errors, m) ==
  IF m.exc # NoExc THEN [ok |-> FALSE, errors |-> errors, exc |-> m.exc]
  ELSE [ok |-> TRUE, errors |-> addError(errors, <<>>, m.msg, Undef), exc |-> NoExc]

\* the root 'type' error m recorded: [ok, errors, exc]
invalidInput(errors, m) ==
  IF m.exc # NoExc THEN [ok |-> FALSE, errors |-> errors, exc |-> m.exc]
  ELSE [ok |-> FALSE, errors |-> addError(errors, <<>>, m.msg, Undef), exc |-> NoExc]

\* [ok, errors, exc]
isValidInput(input, errors, options) ==
  IF isObject(input) THEN [ok |-> TRUE, errors |-> errors, exc |-> NoExc]
  ELSE invalidInput(errors,
         getErrorMessage(<<>>, "type",
                         Str(IF isArray(input) THEN "array"
                             ELSE IF input.t = "null" THEN "null"
                             ELSE constructorName(input)),
                         options.errorMessage, "object"))

\* a success that looks at the root entry only
success_rootOnly(errors) == <<>> \notin DOMAIN errors

\* Object.keys(errors).length === 0
success(errors) == DOMAIN errors = {}

\* the value validate returns
returned(data, errors) ==
  [status |-> "returned", success |-> success(errors), data |-> data,
   errors |-> errors, exc |-> NoExc]

\* the catch block once the message m is composed
caughtMessage(data, errors, m) ==
  IF m.exc # NoExc
  THEN [status |-> "threw", success |-> FALSE, data |-> data, errors |-> errors,
        exc |-> m.exc]
  ELSE returned(data, addError(errors, <<>>, m.msg, Undef))

\* the catch block: the returned value, or the exception that leaves validate
caught(error, data, errors, options) ==
  caughtMessage(data, errors,
                getErrorMessage(<<>>, "exception", error, options.errorMessage, ""))

\* an error map that the calls of a validator share
newErrors_kept(left) == left

\* const errors = {}: a new map, whatever an earlier or enclosing call holds
newErrors(left) == <<>>

\* the locals of a call at its entry, left being the errors the caller's
\* frame holds: const data = {}, const safeData = {}, const errors = {}
entry(left) ==
  [target |-> EmptyObj, safe |-> EmptyObj, errors |-> newErrors(left),
   exc |-> NoExc, tid |-> (<<>> :> 1), sid |-> (<<>> :> 2), next |-> 3]

\* the try block after isValidInput returned v, up to the callback: [valid, st]
validateRoot(type, input, options, v, st) ==
  IF v.ok
  THEN [valid |-> TRUE,
        st |-> validate(<<>>,
                        [key |-> <<>>, alias |-> NoAlias, optional |-> FALSE, type |-> type],
                        input, [st EXCEPT !.errors = v.errors], options)]
  ELSE [valid |-> FALSE, st |-> [st EXCEPT !.errors = v.errors, !.exc = v.exc]]

\* the try block up to the callback, entered from a frame that holds left
structuralPassFrom(type, input, options, left) ==
  validateRoot(type, input, options,
               isValidInput(input, entry(left).errors, options), entry(left))

\* the try block up to the callback of a call on its own
structuralPass(type, input, options) ==
  structuralPassFrom(type, input, options, <<>>)

(* ------------------- path navigator (issues, form helper) ------------- *)
\* Number(prop) is not NaN: the empty string and the numerals
isArrayIndex(prop) == prop = <<>> \/ (Len(prop) = 1 /\ prop[1] \in Numerals)

indexOf(prop) ==
  IF prop = <<>> THEN 0
  ELSE CHOOSE n \in 0 .. DEFAULT_ARRAY_LIMIT : ToString(n) = prop[1]

makePath(currentPath, prop) ==
  LET key == IF isArrayIndex(prop) THEN <<"[", ToString(indexOf(prop)), "]">> ELSE prop
      dot == IF currentPath = <<>> \/ isArrayIndex(prop) THEN <<>> ELSE <<".">>
  IN currentPath \o dot \o key

\* target.value[prop]
propertyOf(value, prop) ==
  IF isArray(value)
  THEN IF prop # <<>> /\ isArrayIndex(prop) THEN GetKey(value, indexOf(prop)) ELSE Undef
  ELSE GetKey(value, prop)

\* the handler's get for a field or index: the child navigator's target
proxyGet(target, prop) ==
  [path |-> makePath(target.path, prop),
   value |-> IF isArray(target.value) \/ isObject(target.value)
             THEN propertyOf(target.value, prop)
             ELSE Undef]

\* the navigator reached from the root over input by a chain of gets
RECURSIVE navigate(_, _, _)
navigate(target, chain, i) ==
  IF i > Len(chain) THEN target ELSE navigate(proxyGet(target, chain[i]), chain, i + 1)

proxy(input, chain) == navigate([path |-> <<>>, value |-> input], chain, 1)

\* issues.<chain>.push(error): error is [fn, text]
push(errors, target, error) ==
  addError(errors, target.path,
           IF error.fn THEN Msg("push", "function", getKey(target.path), error.text, "")
           ELSE Msg("push", "literal", <<>>, error.text, ""),
           target.value)

\* formHelper.<chain>.path
pathOfTarget(target) == target.path

\* formHelper.<chain>.value: stringify(target.value ?? errors[path]?.value)
valueOfTarget(target, errors) ==
  IF ~IsNullish(target.value) THEN stringify(target.value)
  ELSE IF target.path \in DOMAIN errors THEN errors[target.path].value
  ELSE ""

\* formHelper.<chain>.errors: errors[path]?.errors ?? []
errorsOfTarget(target, errors) ==
  IF target.path \in DOMAIN errors THEN errors[target.path].errors ELSE <<>>

\* [...formHelper.<chain>]: the generator yields this[i] for i < length
iterate(target) ==
  [i \in 1 .. Len(target.value.v) |-> proxyGet(target, <<ToString(i - 1)>>)]

(* ------------------------------ the inputs ---------------------------- *)
SchemaA ==
  <<Field(<<"s">>, Prim("string")),
    Field(<<"n", "?">>, Prim("number")),
    Field(<<"b">>, Prim("boolean"))>>

SchemaB ==
  <<Field(<<"g", ":", "k">>, Prim("bigint")),
    Field(<<"f">>, Prim("file"))>>

SchemaC == <<Field(<<"a">>, ArrayOf(Prim("string")))>>

SchemaD ==
  <<Field(<<"o", "?">>,
          ObjectOf(<<Field(<<"c">>, Prim("number")),
                     Field(<<"d">>, ArrayOf(ObjectOf(<<Field(<<"e">>, Prim("string"))>>)))>>))>>

\* a field whose declared name reads as a number
SchemaE == <<Field(<<"1">>, Prim("string"))>>

Schemas == {SchemaA, SchemaB, SchemaC, SchemaD, SchemaE}

\* a value that coerces to the kind
Good(p) ==
  CASE p = "string" -> Str("a")
    [] p = "number" -> Str("2")
    [] p = "boolean" -> Bool(TRUE)
    [] p = "bigint" -> Str("1")
    [] OTHER -> FileV("a.txt")

\* an input that matches the type, every field given; extra: each object
\* also carries a key the schema does not declare
RECURSIVE GoodValue(_, _)
GoodValue(type, extra) ==
  IF type.k = "prim" THEN Good(type.p)
  ELSE IF type.k = "array" THEN Arr(<<GoodValue(type.of, extra)>>)
  ELSE Obj([name \in {IF type.props[j].alias = NoAlias THEN type.props[j].key
                       ELSE type.props[j].alias : j \in 1 .. Len(type.props)}
                      \cup (IF extra THEN {<<"x">>} ELSE {}) |->
             IF name = <<"x">> THEN Str("a")
             ELSE GoodValue(type.props[CHOOSE j \in 1 .. Len(type.props) :
                                         name \in {type.props[j].key,
                                                    type.props[j].alias}].type,
                            extra)])

PrimCands(p) ==
  CASE p = "string" -> {Undef, Str("a"), Num(1), Arr(<<Str("a")>>)}
    [] p = "number" -> {Undef, Str("2"), Str("x"), Num(3)}
    [] p = "boolean" -> {Null, Bool(TRUE), Str("0"), Str("b")}
    [] p = "bigint" -> {Undef, Str("1"), Str("x"), Big(2)}
    [] OTHER -> {Undef, FileV("a.txt"), Str("f")}

SeqsUpTo(S, n) == UNION {[1 .. m -> S] : m \in 0 .. n}

Repeat(x, n) == Arr([i \in 1 .. n |-> x])

\* the candidate inputs of a field of the given type; deep: inside an array;
\* any: also the values whose conversion throws
RECURSIVE Cands(_, _, _)
RECURSIVE ObjCands(_, _, _, _)
ObjCands(props, i, deep, any) ==
  IF i > Len(props) THEN {<<>>}
  ELSE LET name == IF props[i].alias = NoAlias THEN props[i].key ELSE props[i].alias
       IN {IF c = Undef THEN rest ELSE (name :> c) @@ rest :
             c \in Cands(props[i].type, deep, any),
             rest \in ObjCands(props, i + 1, deep, any)}

Cands(type, deep, any) ==
  IF type.k = "prim"
  THEN (IF deep THEN {Undef, Good(type.p)} ELSE PrimCands(type.p))
         \cup (IF any /\ ~deep THEN {NullProto} ELSE {})
  ELSE IF type.k = "array"
  THEN LET elems == IF type.of.k = "prim" THEN {Null, Good(type.of.p)}
                    ELSE {Null} \cup {Obj(f) : f \in ObjCands(type.of.props, 1, TRUE, any)}
       IN {Undef} \cup {Arr(q) : q \in SeqsUpTo(elems, MaxLen)}
            \cup (IF type.of.k = "prim"
                  THEN {Good(type.of.p),
                        Repeat(Good(type.of.p), DEFAULT_ARRAY_LIMIT),
                        Repeat(Good(type.of.p), DEFAULT_ARRAY_LIMIT + 1)}
                  ELSE {Str("x"), GoodValue(type.of, FALSE)})
  ELSE {Undef, Str("x")} \cup {Obj(f) : f \in ObjCands(type.props, 1, TRUE, any)}

\* inputs with keys the schema does not read: an undeclared key at every
\* level, and the declared name of a field that is read under its alias
ExtraInputs(type) ==
  {GoodValue(type, TRUE), Obj(<<"x">> :> Str("a"))}
    \cup UNION {{Obj((type.props[j].key :> v) @@ f.v) :
                    v \in {Good(type.props[j].type.p), Str("x")},
                    f \in {GoodValue(type, FALSE), EmptyObj}} :
                   j \in {i \in 1 .. Len(type.props) : type.props[i].alias # NoAlias}}

\* the name under which a field is read from the input
sourceName(prop) == IF prop.alias = NoAlias THEN prop.key ELSE prop.alias

\* what a flat source carries as values
FlatValues == {Str("a"), FileV("a.txt")}

\* the values vs under the indexed keys name[0], name[1], ...
Indexed(name, vs) ==
  Flat([i \in 1 .. Len(vs) |->
          [key |-> name \o <<"[", ToString(i - 1), "]">>, value |-> vs[i]]])

\* the values vs under the repeated key name
Repeated(name, vs) == Flat([i \in 1 .. Len(vs) |-> [key |-> name, value |-> vs[i]]])

\* the root fields declared as arrays of strings
StringArrays(type) ==
  {j \in 1 .. Len(type.props) :
     /\ type.props[j].type.k = "array"
     /\ type.props[j].type.of = Prim("string")}

\* the flat sources: form data and query strings for the arrays of strings
FlatInputs(type) ==
  UNION {{Indexed(sourceName(type.props[j]), vs), Repeated(sourceName(type.props[j]), vs)} :
           j \in StringArrays(type), vs \in SeqsUpTo(FlatValues, MaxLen)}

\* what is not a plain object
BadRoots == {Null, Undef, EmptyArr, Inst("Foo"), Str("a")}

Inputs(type, any) ==
  {Obj(f) : f \in ObjCands(type.props, 1, FALSE, any)} \cup BadRoots
    \cup ExtraInputs(type) \cup FlatInputs(type)
    \cup (IF any THEN {NullProto} ELSE {})

Limits == {<<>>} \cup {<<n>> : n \in 1 .. MaxLimit}

Overrides == {"none", "string", "exception"}
OverridesAny == Overrides \cup {"undefined", "throws", "throwsOnField"}

\* the options of a call: a limit and no hook, or a hook and the default
\* limit, or the smallest limit and the hook that always answers
OptionsOf(overrides) ==
  {[arrayLimit |-> l, errorMessage |-> "none"] : l \in Limits}
    \cup {[arrayLimit |-> <<>>, errorMessage |-> o] : o \in overrides}
    \cup {[arrayLimit |-> <<1>>, errorMessage |-> "string"]}

\* what a callback throws
Thrown == {Err("boom"), Null, Str("boom")}

\* what a callback throws after n pushes: an Error at any time, the values
\* that are no Error straight away
ThrownAfter(n) == IF n = 0 THEN Thrown ELSE {Err("boom")}

\* where a callback pushes: the root, the first field and the deepest
\* location under it
RECURSIVE Chains(_, _)
RECURSIVE ChainsOf(_, _)
ChainsOf(type, chain) ==
  IF type.k = "prim" THEN {chain}
  ELSE IF type.k = "array" THEN {chain} \cup ChainsOf(type.of, Append(chain, <<"0">>))
  ELSE {chain} \cup Chains(type.props, chain)

Chains(props, chain) ==
  UNION {ChainsOf(props[i].type, Append(chain, props[i].key)) : i \in 1 .. Len(props)}

PushChains(type) ==
  LET all == {c \in ChainsOf(type, <<>>) : c # <<>> /\ c[1] = type.props[1].key}
  IN {<<>>} \cup {c \in all : (\A d \in all : Len(c) <= Len(d))
                                 \/ (\A e \in all : Len(c) >= Len(e))}

PushErrors == {[fn |-> FALSE, text |-> "m"], [fn |-> TRUE, text |-> "t"]}

\* the pushes a callback makes: a literal message at each of the locations,
\* a function of the key at the deepest one
Pushes(type) ==
  {x \in [chain : PushChains(type), error : PushErrors] :
     x.error.fn => \A d \in PushChains(type) : Len(d) <= Len(x.chain)}

\* an input that gives the containers of the type and none of its leaves
RECURSIVE Skeleton(_)
Skeleton(type) ==
  IF type.k = "prim" THEN Null
  ELSE IF type.k = "array" THEN Arr(<<Skeleton(type.of)>>)
  ELSE Obj([name \in {sourceName(type.props[j]) :
                        j \in {i \in 1 .. Len(type.props) :
                                 type.props[i].type.k # "prim"}} |->
              Skeleton(type.props[CHOOSE j \in 1 .. Len(type.props) :
                                     sourceName(type.props[j]) = name].type)])

\* the inputs of the callers that call again, from inside a callback or
\* after a call
UseInputs(type) ==
  {GoodValue(type, FALSE), EmptyObj, Skeleton(type),
   Obj([name \in {sourceName(type.props[j]) : j \in 1 .. Len(type.props)} |->
          Inst("Foo")])}

(* --------------------------- trees by location ------------------------ *)
\* the path validate builds for the location a chain of field names and
\* indices addresses: childPath = `${path}.${childKey}`, itemPath =
\* `${path}[${i}]`
RECURSIVE LocationPath(_, _, _, _)
LocationPath(ty, chain, i, path) ==
  IF i > Len(chain) THEN path
  ELSE IF ty.k = "array"
  THEN LocationPath(ty.of, chain, i + 1, path \o <<"[">> \o chain[i] \o <<"]">>)
  ELSE LocationPath(ty.props[CHOOSE j \in 1 .. Len(ty.props) :
                               ty.props[j].key = chain[i]].type,
                    chain, i + 1,
                    IF path = <<>> THEN chain[i] ELSE path \o <<".">> \o chain[i])

\* the declared type of the location
RECURSIVE typeAt(_, _, _)
typeAt(ty, chain, i) ==
  IF i > Len(chain) THEN ty
  ELSE IF ty.k = "array" THEN typeAt(ty.of, chain, i + 1)
  ELSE typeAt(ty.props[CHOOSE j \in 1 .. Len(ty.props) :
                         ty.props[j].key = chain[i]].type, chain, i + 1)

\* the key a link of a chain is in its container
keyAt(ty, link) == IF ty.k = "array" THEN indexOf(link) ELSE link

\* tree.<chain>
RECURSIVE valueAt(_, _, _, _)
valueAt(ty, chain, i, tree) ==
  IF i > Len(chain) THEN tree
  ELSE IF ~(isArray(tree) \/ isObject(tree)) THEN Undef
  ELSE valueAt(typeAt(ty, <<chain[i]>>, 1), chain, i + 1,
               GetKey(tree, keyAt(ty, chain[i])))

\* tree.<chain>.x = val for an object, tree.<chain>[0] = val for an array
RECURSIVE assignAt(_, _, _, _, _)
assignAt(ty, chain, i, tree, val) ==
  IF i > Len(chain)
  THEN IF isArray(tree)
       THEN IF Len(tree.v) = 0 THEN Arr(<<val>>) ELSE SetKey(tree, 0, val)
       ELSE SetKey(tree, <<"x">>, val)
  ELSE SetKey(tree, keyAt(ty, chain[i]),
              assignAt(typeAt(ty, <<chain[i]>>, 1), chain, i + 1,
                       GetKey(tree, keyAt(ty, chain[i])), val))

\* the locations declared as containers, the root among them
ContainerChains(type) ==
  {c \in ChainsOf(type, <<>>) : typeAt(type, c, 1).k # "prim"}

\* where a callback assigns into its safe data: the root and the deepest
\* container
AssignChains(type) ==
  {c \in ContainerChains(type) :
     c = <<>> \/ \A d \in ContainerChains(type) : Len(d) <= Len(c)}

(* ------------------------------ the state ----------------------------- *)
VARIABLES
  type,        \* the parsed schema the validator closes over
  callback,    \* whether the validator was built with a custom callback
  pc,          \* "idle", "callback" (the custom callback runs), "done"
  input,       \* the normalized input of the call
  options,     \* ctx: [arrayLimit, errorMessage]
  data,        \* the render tree
  safeData,    \* the tree handed to the callback
  errors,      \* the error map of the call
  result,      \* what the call returned, or that it threw
  structural,  \* the error map as the structural pass left it
  calls,       \* how often the callback was invoked in this call
  pushes,      \* how many pushes were made on the error map of the call
  thrown,      \* what the callback threw
  refs,        \* the identities of the containers of the two trees
  outer,       \* the frame of the call whose callback is calling validate
  prev         \* the call that returned before the current one

vars == <<type, callback, pc, input, options, data, safeData, errors, result,
          structural, calls, pushes, thrown, refs, outer, prev>>

NoResult ==
  [status |-> "none", success |-> FALSE, data |-> EmptyObj, errors |-> <<>>,
   exc |-> NoExc]

NoOptions == [arrayLimit |-> <<>>, errorMessage |-> "none"]

NoFrame == [status |-> "none"]

Init ==
  /\ type \in {parseSchema(s) : s \in Schemas}
  /\ callback \in BOOLEAN
  /\ pc = "idle"
  /\ input = Undef
  /\ options = NoOptions
  /\ data = EmptyObj
  /\ safeData = EmptyObj
  /\ errors = <<>>
  /\ result = NoResult
  /\ structural = <<>>
  /\ calls = 0
  /\ pushes = 0
  /\ thrown = NoExc
  /\ refs = [t |-> <<>>, s |-> <<>>]
  /\ outer = NoFrame
  /\ prev = NoFrame

\* the call once the structural pass p is done; invoke: the callback is called
Proceed(norm, opts, p, invoke) ==
  /\ input' = norm
  /\ options' = opts
  /\ data' = p.st.target
  /\ safeData' = p.st.safe
  /\ structural' = p.st.errors
  /\ refs' = [t |-> p.st.tid, s |-> p.st.sid]
  /\ calls' = IF invoke THEN 1 ELSE 0
  /\ pc' = IF invoke THEN "callback" ELSE "done"
  /\ result' = IF invoke THEN NoResult
               ELSE IF p.st.exc # NoExc
               THEN caught(p.st.exc, p.st.target, p.st.errors, opts)
               ELSE returned(p.st.target, p.st.errors)
  /\ errors' = IF invoke THEN p.st.errors ELSE result'.errors

Entered(norm, opts, p) ==
  Proceed(norm, opts, p, p.valid /\ p.st.exc = NoExc /\ callback)

\* the body of validate(in, opts) up to the callback, and to the end when
\* none is invoked, entered while the variables hold what the caller left
Start(in, opts) ==
  /\ Entered(normalizeInput(in), opts,
             structuralPassFrom(type, normalizeInput(in), opts, errors))
  /\ pushes' = 0
  /\ thrown' = NoExc
  /\ UNCHANGED <<type, callback>>

\* validate(in, opts), called by a caller that holds no result
Call(in, opts) ==
  /\ pc = "idle"
  /\ Start(in, opts)
  /\ UNCHANGED <<outer, prev>>

\* validate(in, opts), called by a caller that still holds the last result
Again(in, opts) ==
  /\ pc = "done"
  /\ outer = NoFrame
  /\ prev = NoFrame
  /\ prev' = [status |-> "returned", input |-> input, options |-> options,
              data |-> data, structural |-> structural, result |-> result,
              pushes |-> pushes, thrown |-> thrown]
  /\ Start(in, opts)
  /\ UNCHANGED outer

\* the callback calls validate(in, opts) of the same validator: the frame of
\* the running call is suspended
NestedCall(in, opts) ==
  /\ pc = "callback"
  /\ outer = NoFrame
  /\ prev = NoFrame
  /\ outer' = [status |-> "suspended", input |-> input, options |-> options,
               data |-> data, safeData |-> safeData, errors |-> errors,
               structural |-> structural, calls |-> calls, pushes |-> pushes,
               refs |-> refs]
  /\ Start(in, opts)
  /\ UNCHANGED prev

\* the nested call has returned to the callback that made it
Resume ==
  /\ pc = "done"
  /\ outer # NoFrame
  /\ pc' = "callback"
  /\ input' = outer.input
  /\ options' = outer.options
  /\ data' = outer.data
  /\ safeData' = outer.safeData
  /\ errors' = outer.errors
  /\ structural' = outer.structural
  /\ calls' = outer.calls
  /\ pushes' = outer.pushes
  /\ refs' = outer.refs
  /\ result' = NoResult
  /\ thrown' = NoExc
  /\ outer' = NoFrame
  /\ UNCHANGED <<type, callback, prev>>

\* the callback calls issues.<chain>.push(error)
Push(chain, error) ==
  /\ pc = "callback"
  /\ pushes < MaxPush
  /\ errors' = push(errors, proxy(input, chain), error)
  /\ pushes' = pushes + 1
  /\ UNCHANGED <<type, callback, pc, input, options, data, safeData, result,
                 structural, calls, thrown, refs, outer, prev>>

\* the render-tree locations whose container is the object the safe tree
\* holds at the chain
sameObject(chain) ==
  {c \in ContainerChains(type) :
     /\ LocationPath(type, c, 1, <<>>) \in DOMAIN refs.t
     /\ refs.t[LocationPath(type, c, 1, <<>>)]
          = refs.s[LocationPath(type, chain, 1, <<>>)]}

\* the callback assigns val into the container its safe data holds at the
\* chain: every tree that holds this object sees the assignment
CallbackAssign(chain, val) ==
  /\ pc = "callback"
  /\ LocationPath(type, chain, 1, <<>>) \in DOMAIN refs.s
  /\ TypeOf(valueAt(type, chain, 1, safeData)) = "object"
  /\ safeData' = assignAt(type, chain, 1, safeData, val)
  /\ data' = IF sameObject(chain) = {} THEN data
             ELSE assignAt(type, CHOOSE c \in sameObject(chain) : TRUE, 1, data, val)
  /\ UNCHANGED <<type, callback, pc, input, options, errors, result, structural,
                 calls, pushes, thrown, refs, outer, prev>>

\* the callback returns
CallbackReturn ==
  /\ pc = "callback"
  /\ pc' = "done"
  /\ result' = returned(data, errors)
  /\ UNCHANGED <<type, callback, input, options, data, safeData, errors,
                 structural, calls, pushes, thrown, refs, outer, prev>>

\* the callback throws e, and the catch block runs
CallbackThrow(e) ==
  /\ pc = "callback"
  /\ pc' = "done"
  /\ thrown' = e
  /\ result' = caught(e, data, errors, options)
  /\ errors' = result'.errors
  /\ UNCHANGED <<type, callback, input, options, data, safeData, structural,
                 calls, pushes, refs, outer, prev>>

\* the caller pushes through form.helper(result): the handler of the proxy
\* answers push whatever built it, and writes to the errors it was given
HelperPush(chain, error) ==
  /\ pc = "done"
  /\ outer = NoFrame
  /\ result.status = "returned"
  /\ pushes < MaxPush
  /\ result' = [result EXCEPT !.errors = push(@, proxy(result.data, chain), error)]
  /\ errors' = result'.errors
  /\ pushes' = pushes + 1
  /\ UNCHANGED <<type, callback, pc, input, options, data, safeData, structural,
                 calls, thrown, refs, outer, prev>>

\* the issues navigator the callback kept is pushed on after validate returned:
\* result.errors is the error map it writes to
LatePush(chain, error) ==
  /\ pc = "done"
  /\ outer = NoFrame
  /\ result.status = "returned"
  /\ calls = 1
  /\ pushes < MaxPush
  /\ errors' = push(errors, proxy(input, chain), error)
  /\ result' = [result EXCEPT !.errors = errors']
  /\ pushes' = pushes + 1
  /\ UNCHANGED <<type, callback, pc, input, options, data, safeData, structural,
                 calls, thrown, refs, outer, prev>>

\* the caller is done with the result; the validator is called again
Reset ==
  /\ pc = "done"
  /\ outer = NoFrame
  /\ pc' = "idle"
  /\ input' = Undef
  /\ options' = NoOptions
  /\ data' = EmptyObj
  /\ safeData' = EmptyObj
  /\ errors' = <<>>
  /\ result' = NoResult
  /\ structural' = <<>>
  /\ calls' = 0
  /\ pushes' = 0
  /\ thrown' = NoExc
  /\ refs' = [t |-> <<>>, s |-> <<>>]
  /\ prev' = NoFrame
  /\ UNCHANGED <<type, callback, outer>>

\* callers whose errorMessage hook returns a string or undefined, as its
\* type declares
Next ==
  \/ \E in \in Inputs(type, FALSE), opts \in OptionsOf(Overrides) : Call(in, opts)
  \/ \E x \in Pushes(type) : Push(x.chain, x.error)
  \/ CallbackReturn
  \/ \E e \in ThrownAfter(pushes) : CallbackThrow(e)
  \/ Reset

Spec == Init /\ [][Next]_vars

\* any caller: the hook may throw as well, and an input may hold values
\* that cannot be converted to a primitive
NextAny ==
  \/ \E in \in Inputs(type, TRUE), opts \in OptionsOf(OverridesAny) : Call(in, opts)
  \/ \E x \in Pushes(type) : Push(x.chain, x.error)
  \/ CallbackReturn
  \/ \E e \in ThrownAfter(pushes) : CallbackThrow(e)
  \/ Reset

SpecAny == Init /\ [][NextAny]_vars

\* callers that call the validator again, after a call or from inside its
\* callback, and callbacks that assign into their safe data
NextUse ==
  \/ \E in \in UseInputs(type) : Call(in, NoOptions)
  \/ \E in \in UseInputs(type) : Again(in, NoOptions)
  \/ \E in \in UseInputs(type) : NestedCall(in, NoOptions)
  \/ Resume
  \/ Push(<<>>, [fn |-> FALSE, text |-> "m"])
  \/ \E c \in AssignChains(type) : CallbackAssign(c, Str("w"))
  \/ CallbackReturn
  \/ Reset

SpecUse == Init /\ [][NextUse]_vars

\* callers that go on using the navigators after validate returned
NextLate ==
  \/ \E in \in UseInputs(type) : Call(in, NoOptions)
  \/ \E x \in Pushes(type) : Push(x.chain, x.error)
  \/ CallbackReturn
  \/ \E e \in ThrownAfter(pushes) : CallbackThrow(e)
  \/ \E x \in Pushes(type) : HelperPush(x.chain, x.error)
  \/ \E x \in Pushes(type) : LatePush(x.chain, x.error)
  \/ Reset

SpecLate == Init /\ [][NextLate]_vars

(* ====================================================================== *)
(*                         the properties checked                         *)
(* ====================================================================== *)

(* ----------------------- vocabulary of the claims --------------------- *)
\* container[key] when the container is of the given kind, else undefined
At(container, kind, key) ==
  IF container.t = kind THEN GetKey(container, key) ELSE Undef

\* the elements a value offers to an array field
AsArray(v) == IF isArray(v) THEN v.v ELSE <<v>>

\* the single element of a one-element array, else the value itself
Unwrapped(v) == IF isArray(v) /\ Len(v.v) = 1 THEN v.v[1] ELSE v

IsNumeral(u) == u.t = "string" /\ \E n \in 0 .. MaxNumeral : ToString(n) = u.v

\* the value can be converted to the primitive kind p
Coercible(p, v) ==
  CASE p = "string" -> Unwrapped(v).t # "nullproto"
    [] p = "number" -> Unwrapped(v).t \in {"number", "bigint", "boolean"}
                         \/ IsNumeral(Unwrapped(v))
    [] p = "boolean" -> \/ Unwrapped(v).t = "boolean"
                        \/ Unwrapped(v) \in {Str("true"), Str("1"), Str("false"), Str("0")}
                        \/ Unwrapped(v) \in {Num(0), Num(1)}
    [] p = "bigint" -> Unwrapped(v).t \in {"number", "bigint", "boolean"}
                         \/ IsNumeral(Unwrapped(v))
    [] OTHER -> Unwrapped(v).t = "file"

\* the default of a kind, built from the declared shape
RECURSIVE KindDefault(_)
KindDefault(ty) ==
  IF ty.k = "prim"
  THEN CASE ty.p = "string" -> Str("")
         [] ty.p = "number" -> Num(0)
         [] ty.p = "boolean" -> Bool(FALSE)
         [] ty.p = "bigint" -> Big(0)
         [] OTHER -> FileV("")
  ELSE IF ty.k = "array" THEN Arr(<<>>)
  ELSE Obj([k \in {ty.props[j].key : j \in 1 .. Len(ty.props)} |->
              KindDefault(ty.props[CHOOSE j \in 1 .. Len(ty.props) :
                                     ty.props[j].key = k].type)])

\* The value matches the type.  A required field must be present and
\* coercible; strict: an optional field that is present must be coercible too.
RECURSIVE ValidValue(_, _, _, _)
RECURSIVE ValidField(_, _, _, _)
ValidValue(ty, v, limit, strict) ==
  IF ty.k = "prim" THEN Coercible(ty.p, v)
  ELSE IF ty.k = "array"
  THEN /\ Len(AsArray(v)) <= limit
       /\ \A i \in 1 .. Len(AsArray(v)) :
            /\ ~IsNullish(AsArray(v)[i])
            /\ ValidValue(ty.of, AsArray(v)[i], limit, strict)
  ELSE /\ isObject(v)
       /\ \A j \in 1 .. Len(ty.props) :
            ValidField(ty.props[j], At(v, "object", sourceName(ty.props[j])),
                       limit, strict)

ValidField(prop, v, limit, strict) ==
  IF IsNullish(v) THEN prop.optional
  ELSE IF prop.optional /\ ~strict /\ prop.type.k = "prim" THEN TRUE
  ELSE IF prop.optional /\ ~strict /\ prop.type.k = "object" /\ ~isObject(v) THEN TRUE
  ELSE ValidValue(prop.type, v, limit, strict)

\* The fields the structural pass reaches, each with its input and with what
\* the render tree and the safe tree hold for it: a field is reached when its
\* container was present, of the right kind and, for an array, within the limit.
RECURSIVE ReachedField(_, _, _, _, _, _, _, _)
ReachedField(path, ty, optional, in, render, safe, limit, top) ==
  {[path |-> path, type |-> ty, optional |-> optional, input |-> in,
    render |-> render, safe |-> safe]}
  \cup
  (IF IsNullish(in) \/ ty.k = "prim" THEN {}
   ELSE IF ty.k = "array"
   THEN IF Len(AsArray(in)) > limit THEN {}
        ELSE UNION {ReachedField(path \o <<"[", ToString(i), "]">>, ty.of, FALSE,
                                 AsArray(in)[i + 1],
                                 At(render, "array", i), At(safe, "array", i),
                                 limit, FALSE) :
                      i \in 0 .. (Len(AsArray(in)) - 1)}
   ELSE IF ~isObject(in) THEN {}
   ELSE UNION {ReachedField(IF top THEN ty.props[j].key
                            ELSE path \o <<".">> \o ty.props[j].key,
                            ty.props[j].type, ty.props[j].optional,
                            At(in, "object", sourceName(ty.props[j])),
                            At(render, "object", ty.props[j].key),
                            At(safe, "object", ty.props[j].key),
                            limit, FALSE) :
                 j \in 1 .. Len(ty.props)})

\* the declared fields reached in the current call (not the root itself)
Reached ==
  IF pc = "idle" \/ ~isObject(input) THEN {}
  ELSE {r \in ReachedField(<<>>, type, FALSE, input, data, safeData,
                           limitOf(options), TRUE) : r.path # <<>>}

\* the codes of the structural messages recorded at a path
CodesAt(errs, path) ==
  IF path \in DOMAIN errs
  THEN {errs[path].errors[i].code : i \in 1 .. Len(errs[path].errors)}
  ELSE {}

\* q lies strictly under p
Under(p, q) == Len(q) > Len(p) /\ SubSeq(q, 1, Len(p)) = p

\* coercion of the field's input to its kind failed
CoercionFailed(r) ==
  /\ ~IsNullish(r.input)
  /\ IsNullish(coerce(r.input, expectedOf(r.type)).v)

\* the call had no callback and is over
PlainCallOver == pc = "done" /\ ~callback

(* -------------------------------- C1 ---------------------------------- *)
\* C1 as stated: whenever each required field of the input is present and
\* coercible to its kind (arrays within the limit) and there is no callback,
\* validate returns success = true and an empty error map.
C1_RequiredValidSucceeds ==
  (PlainCallOver /\ ValidValue(type, input, limitOf(options), FALSE))
    => /\ result.status = "returned"
       /\ result.success
       /\ DOMAIN result.errors = {}

\* C1, amended: whenever each required field is present and coercible, each
\* optional field is missing or coercible (arrays within the limit), and there
\* is no callback, validate returns success = true and an empty error map.
C1_ValidSucceeds ==
  (PlainCallOver /\ ValidValue(type, input, limitOf(options), TRUE))
    => /\ result.status = "returned"
       /\ result.success
       /\ DOMAIN result.errors = {}

\* a valid input with an optional field left out was validated
C1_Witness ==
  /\ PlainCallOver
  /\ ValidValue(type, input, limitOf(options), TRUE)
  /\ result.success
  /\ \E r \in Reached : r.optional /\ IsNullish(r.input)

(* -------------------------------- C2 ---------------------------------- *)
\* C2: whatever the callback pushed or threw, a returned result has
\* success = true exactly when its error map has no entry; the map is the one
\* the structural pass and the callback filled, every entry holds a message.
C2_SuccessIffNoErrors ==
  result.status = "returned" =>
    /\ result.success <=> (Cardinality(DOMAIN result.errors) = 0)
    /\ \A p \in DOMAIN result.errors : Len(result.errors[p].errors) >= 1
    /\ DOMAIN result.errors = DOMAIN errors
    /\ \A p \in DOMAIN errors : result.errors[p] = errors[p]
    /\ (pushes > 0 \/ thrown # NoExc \/ DOMAIN structural # {}) => ~result.success

\* the structural pass found nothing, the callback pushed, the call failed
C2_Witness ==
  /\ result.status = "returned"
  /\ DOMAIN structural = {}
  /\ pushes > 0
  /\ <<>> \notin DOMAIN result.errors
  /\ ~result.success

(* -------------------------------- C3 ---------------------------------- *)
\* C3: for every primitive field whose input is present and coerces, the
\* coerced value is what the render data holds and what the safe data handed
\* to the callback holds.
C3_LeafInBothTrees ==
  calls = 1 =>
    \A r \in Reached :
      (r.type.k = "prim" /\ ~IsNullish(r.input) /\ ~CoercionFailed(r))
        => /\ r.render = coerce(r.input, r.type.p).v
           /\ r.safe = coerce(r.input, r.type.p).v

(* -------------------------------- C4 ---------------------------------- *)
\* the safe value has the complete declared shape
RECURSIVE Complete(_, _)
Complete(ty, v) ==
  IF ty.k = "prim" THEN v.t = ty.p
  ELSE IF ty.k = "array"
  THEN isArray(v) /\ \A i \in 1 .. Len(v.v) : Complete(ty.of, v.v[i])
  ELSE /\ isObject(v)
       /\ DOMAIN v.v = {ty.props[j].key : j \in 1 .. Len(ty.props)}
       /\ \A j \in 1 .. Len(ty.props) :
            Complete(ty.props[j].type, v.v[ty.props[j].key])

\* C4: the safe data handed to the callback has the complete declared shape
\* (every field at every depth, no null or undefined), and each field whose
\* input was missing or failed coercion holds the default of its kind.
C4_SafeDataComplete ==
  calls = 1 =>
    /\ Complete(type, safeData)
    /\ \A r \in Reached :
         (IsNullish(r.input) \/ CoercionFailed(r)) => r.safe = KindDefault(r.type)

\* the callback was handed defaults for a missing nested object and for a
\* null array element
C4_Witness ==
  /\ calls = 1
  /\ \E r \in Reached : r.type.k = "object" /\ IsNullish(r.input)
                          /\ r.safe = KindDefault(r.type)

(* -------------------------------- C5 ---------------------------------- *)
\* C5: a field the pass reaches gets a 'required' error exactly when its
\* input is null or undefined and it is not optional; a missing optional
\* field gets no error and its default in the safe data; no 'required' error
\* is recorded anywhere else.
C5_RequiredIffMissing ==
  (pc # "idle" /\ isObject(input)) =>
    /\ \A r \in Reached :
         /\ ("required" \in CodesAt(structural, r.path))
              <=> (IsNullish(r.input) /\ ~r.optional)
         /\ (IsNullish(r.input) /\ r.optional)
              => (r.path \notin DOMAIN structural /\ r.safe = KindDefault(r.type))
    /\ \A p \in DOMAIN structural :
         "required" \in CodesAt(structural, p) => \E r \in Reached : r.path = p

\* one call met a missing optional field and a missing required one
C5_Witness ==
  /\ \E r \in Reached : IsNullish(r.input) /\ r.optional
  /\ \E r \in Reached : IsNullish(r.input) /\ ~r.optional
                          /\ "required" \in CodesAt(structural, r.path)

(* -------------------------------- C6 ---------------------------------- *)
\* the array fields that were given a value
GivenArrays == {r \in Reached : r.type.k = "array" /\ ~IsNullish(r.input)}

\* C6: an array field longer than arrayLimit (50 by default) gets exactly one
\* 'array' error at its path and none under it, and both trees hold [] for
\* it; an array of at most arrayLimit elements gets no 'array' error and each
\* element is validated at its index.
C6_ArrayLimit ==
  \A r \in GivenArrays :
    IF Len(AsArray(r.input)) > limitOf(options)
    THEN /\ r.path \in DOMAIN structural
         /\ Len(structural[r.path].errors) = 1
         /\ structural[r.path].errors[1].code = "array"
         /\ structural[r.path].errors[1].a = ToString(limitOf(options))
         /\ structural[r.path].errors[1].b = ToString(Len(AsArray(r.input)))
         /\ \A q \in DOMAIN structural : ~Under(r.path, q)
         /\ r.render = Arr(<<>>)
         /\ r.safe = Arr(<<>>)
    ELSE /\ "array" \notin CodesAt(structural, r.path)
         /\ isArray(r.render) /\ Len(r.render.v) = Len(AsArray(r.input))
         /\ isArray(r.safe) /\ Len(r.safe.v) = Len(AsArray(r.input))
         /\ \A i \in 1 .. Len(AsArray(r.input)) :
              IsNullish(AsArray(r.input)[i])
                <=> "required" \in CodesAt(structural,
                                           r.path \o <<"[", ToString(i - 1), "]">>)

\* an array one element longer than the default limit was rejected
C6_Witness ==
  /\ options.arrayLimit = <<>>
  /\ \E r \in GivenArrays :
       /\ Len(AsArray(r.input)) = DEFAULT_ARRAY_LIMIT + 1
       /\ "array" \in CodesAt(structural, r.path)
       /\ r.safe = Arr(<<>>)

(* -------------------------------- C7 ---------------------------------- *)
\* how many messages an error map holds
RECURSIVE CountIn(_, _)
CountIn(errs, paths) ==
  IF paths = {} THEN 0
  ELSE Len(errs[CHOOSE q \in paths : TRUE].errors)
         + CountIn(errs, paths \ {CHOOSE q \in paths : TRUE})

MessageCount(errs) == CountIn(errs, DOMAIN errs)

\* C7: when the callback throws, validate returns with success = false; the
\* root entry ends with the one 'exception' message (the hook's text, else the
\* thrown error's message); the structural errors and the messages pushed
\* before the throw are all still there.
C7_ThrowIsRecorded ==
  thrown # NoExc =>
    /\ result.status = "returned"
    /\ ~result.success
    /\ <<>> \in DOMAIN result.errors
    /\ result.errors[<<>>].errors[Len(result.errors[<<>>].errors)].code = "exception"
    /\ MessageCount(result.errors) = MessageCount(structural) + pushes + 1
    /\ \A p \in DOMAIN structural :
         /\ p \in DOMAIN result.errors
         /\ SubSeq(result.errors[p].errors, 1, Len(structural[p].errors))
              = structural[p].errors

(* -------------------------------- C8 ---------------------------------- *)
\* C8: no call of validate ends with an exception leaving it, whatever the
\* callback throws, whatever fails in the structural pass or in the hook.
C8_NeverPropagates == result.status # "threw"

(* -------------------------------- C9 ---------------------------------- *)
StructuralCodes == {"required", "type", "array"}

\* C9: the callback is invoked at most once per call and only after the
\* structural pass visited the whole schema; at every path the structural
\* messages come first, unchanged, and what follows is pushed or is the
\* 'exception' message.
C9_CallbackAfterStructural ==
  /\ calls <= 1
  /\ (calls = 1 /\ callback /\ isObject(input)) \/ (calls = 0 /\ pc # "callback")
  /\ calls = 1 => DOMAIN data.v = {type.props[j].key : j \in 1 .. Len(type.props)}
  /\ DOMAIN structural \subseteq DOMAIN errors
  /\ \A p \in DOMAIN structural :
       \A i \in 1 .. Len(structural[p].errors) :
         structural[p].errors[i].code \in StructuralCodes
  /\ \A p \in DOMAIN errors :
       \A i \in 1 .. Len(errors[p].errors) :
         IF p \in DOMAIN structural /\ i <= Len(structural[p].errors)
         THEN errors[p].errors[i] = structural[p].errors[i]
         ELSE errors[p].errors[i].code \in {"push", "exception"}

\* the callback pushed at a path that already held a structural error
C9_Witness ==
  /\ calls = 1
  /\ pushes > 0
  /\ \E p \in DOMAIN structural :
       Len(errors[p].errors) > Len(structural[p].errors)

(* -------------------------------- C10 --------------------------------- *)
\* what the root 'type' message says it received
Described(v) ==
  CASE v.t = "null" -> "null"
    [] v.t = "undefined" -> "undefined"
    [] v.t = "array" -> "array"
    [] v.t = "instance" -> v.v
    [] v.t = "string" -> "String"
    [] OTHER -> "object"

\* C10: an input that is not a plain object (null, undefined, an array, a
\* class instance, a primitive) ends the call at once: success = false, data
\* is {}, the error map has the root entry only, holding exactly one 'type'
\* message (expected 'object', received the input's description), and the
\* callback is not invoked.
C10_BadRootShortCircuits ==
  (pc # "idle" /\ ~isObject(input)) =>
    /\ pc = "done"
    /\ calls = 0
    /\ result.status = "returned"
    /\ ~result.success
    /\ result.data = Obj(<<>>)
    /\ safeData = Obj(<<>>)
    /\ DOMAIN result.errors = {<<>>}
    /\ Len(result.errors[<<>>].errors) = 1
    /\ result.errors[<<>>].errors[1].code = "type"
    /\ result.errors[<<>>].errors[1].a = "object"
    /\ result.errors[<<>>].errors[1].b = Described(input)

\* a validator with a callback was given a class instance
C10_Witness ==
  /\ pc = "done"
  /\ callback
  /\ input.t = "instance"
  /\ calls = 0
  /\ DOMAIN result.errors = {<<>>}

(* -------------------------------- C11 --------------------------------- *)
\* every object of the render tree has exactly the declared keys
RECURSIVE RenderShape(_, _)
RenderShape(ty, v) ==
  IF ty.k = "array"
  THEN isArray(v) => \A i \in 1 .. Len(v.v) : RenderShape(ty.of, v.v[i])
  ELSE IF ty.k = "object"
  THEN isObject(v) =>
         /\ DOMAIN v.v = {ty.props[j].key : j \in 1 .. Len(ty.props)}
         /\ \A j \in 1 .. Len(ty.props) :
              RenderShape(ty.props[j].type, v.v[ty.props[j].key])
  ELSE TRUE

\* C11: whatever failed at sibling fields, the returned data has exactly the
\* declared field names as keys at every object level the pass reached
\* (undeclared input keys are dropped); a field whose input is missing holds
\* the raw missing value, or [] when it is an array field; a field that
\* failed coercion holds undefined.
C11_FullTree ==
  (result.status = "returned" /\ isObject(input)) =>
    /\ result.data = data
    /\ RenderShape(type, result.data)
    /\ \A r \in Reached :
         /\ IsNullish(r.input) =>
              r.render = (IF r.type.k = "array" THEN Arr(<<>>) ELSE r.input)
         /\ CoercionFailed(r) => r.render = Undef

\* an input with an undeclared key and a missing array field was validated
C11_Witness ==
  /\ result.status = "returned"
  /\ isObject(input)
  /\ <<"x">> \in DOMAIN input.v
  /\ ~result.success
  /\ \E r \in Reached : r.type.k = "array" /\ IsNullish(r.input)

(* -------------------------------- C12 --------------------------------- *)
\* the schema the validator was built from
Declared == CHOOSE sch \in Schemas : parseSchema(sch) = type

NotMark(c) == c # "?"

\* the fields of the root declared as name:alias (a primitive kind each),
\* read off the declared keys
Aliased ==
  {[key |-> SubSeq(f.key, 1, IndexOf(f.key, ":", 1) - 1),
    alias |-> SelectSeq(SubSeq(f.key, IndexOf(f.key, ":", 1) + 1, Len(f.key)),
                        NotMark),
    optional |-> f.key[Len(f.key)] = "?",
    type |-> f.type] :
     f \in {Declared[j] : j \in {i \in 1 .. Len(Declared) :
                                   IndexOf(Declared[i].key, ":", 1) # 0}}}

\* the outcome for the root field prop depends on what the input holds
\* under the alias, and is recorded under the name
ReadUnderAlias(prop) ==
  /\ prop.key \in DOMAIN data.v
  /\ prop.key \in DOMAIN safeData.v
  /\ prop.alias \notin DOMAIN data.v
  /\ prop.alias \notin DOMAIN safeData.v
  /\ \A p \in DOMAIN structural : p # prop.alias
  /\ IF IsNullish(At(input, "object", prop.alias))
     THEN /\ data.v[prop.key] = At(input, "object", prop.alias)
          /\ CodesAt(structural, prop.key)
               = (IF prop.optional THEN {} ELSE {"required"})
     ELSE IF Coercible(prop.type.p, At(input, "object", prop.alias))
     THEN /\ data.v[prop.key] = coerce(At(input, "object", prop.alias), prop.type.p).v
          /\ prop.key \notin DOMAIN structural
     ELSE /\ data.v[prop.key] = Undef
          /\ CodesAt(structural, prop.key) = {"type"}
          /\ structural[prop.key].value = stringify(At(input, "object", prop.alias))

\* C12: a field declared name:alias is read from input[alias] only (what
\* input[name] holds is ignored), its result is written under data[name] and
\* safeData[name], and its errors are recorded at the path of the name.
C12_AliasReadNameWritten ==
  (pc # "idle" /\ isObject(input)) =>
    \A f \in Aliased : ReadUnderAlias(f)

\* the input held an uncoercible value under the name and a good one under
\* the alias
C12_Witness ==
  /\ pc # "idle" /\ isObject(input)
  /\ \E f \in Aliased :
       /\ f.key \in DOMAIN input.v
       /\ ~Coercible(f.type.p, input.v[f.key])
       /\ f.alias \in DOMAIN input.v
       /\ f.key \notin DOMAIN structural

(* -------------------------------- C14 --------------------------------- *)
\* a path without its [i] segments
RECURSIVE Stripped(_)
Stripped(path) ==
  IF path = <<>> THEN <<>>
  ELSE IF path[1] = "[" THEN Stripped(SubSeq(path, 4, Len(path)))
  ELSE <<path[1]>> \o Stripped(SubSeq(path, 2, Len(path)))

\* the kind a 'type' message names as expected
KindName(ty) ==
  IF ty.k = "prim" THEN ty.p ELSE ty.k

\* the messages of the validator itself at a path
OwnMessages(path) ==
  {errors[path].errors[i] : i \in {k \in 1 .. Len(errors[path].errors) :
                                     errors[path].errors[k].code # "push"}}

\* C14: each message the validator generates (required, type, array, the
\* root invalid-input error, the root callback-threw error) is the hook's
\* answer for the path without its [i] segments and the descriptor of the
\* error when the hook returns a string, and the default of its kind when
\* the hook returns undefined or there is none.
C14_OverrideFirst ==
  /\ \A p \in DOMAIN errors : \A m \in OwnMessages(p) :
       IF HookReturnsString(options.errorMessage, Stripped(p), m.code)
       THEN m.by = "override" /\ m.key = Stripped(p)
       ELSE m.by = "default"
  /\ \A r \in {x \in Reached : x.path \in DOMAIN structural} :
       \A i \in 1 .. Len(structural[r.path].errors) :
         /\ structural[r.path].errors[i].code = "type" =>
              /\ structural[r.path].errors[i].a = KindName(r.type)
              /\ structural[r.path].errors[i].b
                   = (IF TypeOf(r.input) = "object" THEN "object"
                      ELSE StringOf(r.input).v)
         /\ structural[r.path].errors[i].code = "required" =>
              /\ structural[r.path].errors[i].by = "override"
                   => structural[r.path].errors[i].a = TypeOf(r.input)
              /\ structural[r.path].errors[i].by = "default"
                   => structural[r.path].errors[i].key
                        = getDisplayName(Stripped(r.path))
  /\ (thrown.t = "error" /\ result.status = "returned") =>
       \E m \in OwnMessages(<<>>) :
         /\ m.code = "exception"
         /\ m.by = "default" => m.a = thrown.v

\* the hook answered for an error at an element of an array
C14_Witness ==
  \E p \in DOMAIN errors :
    /\ Stripped(p) # p
    /\ \E m \in OwnMessages(p) : m.by = "override" /\ m.key = Stripped(p)

(* -------------------------------- C20 --------------------------------- *)
\* the array fields given a present value that is not a sequence
GivenScalars == {r \in GivenArrays : ~isArray(r.input)}

\* the root fields among them, by the name they are read under
RootScalars ==
  {j \in 1 .. Len(type.props) :
     /\ type.props[j].type.k = "array"
     /\ ~IsNullish(At(input, "object", sourceName(type.props[j])))
     /\ ~isArray(At(input, "object", sourceName(type.props[j])))}

\* the structural pass over the input with the value of root field j wrapped
Wrapped(j) ==
  structuralPass(type,
                 Obj([input.v EXCEPT ![sourceName(type.props[j])] = Arr(<<@>>)]),
                 options).st

\* C20: an array field given a present value v that is not a sequence is
\* validated as if it were given [v]: the data holds the one coerced element,
\* and no 'type' error is ever recorded at an array field's own path.
C20_ScalarAsSingleton ==
  (pc # "idle" /\ isObject(input)) =>
    /\ \A r \in GivenArrays : "type" \notin CodesAt(structural, r.path)
    /\ \A r \in GivenScalars :
         limitOf(options) >= 1 =>
           /\ isArray(r.render) /\ Len(r.render.v) = 1
           /\ r.render.v[1] = coerce(r.input, expectedOf(r.type.of)).v
           /\ (r.path \o <<"[", "0", "]">> \in DOMAIN structural)
                <=> (r.type.of.k = "prim" /\ ~Coercible(r.type.of.p, r.input))
                      \/ (r.type.of.k = "object" /\ ~isObject(r.input))
    /\ \A j \in RootScalars :
         /\ data = Wrapped(j).target
         /\ safeData = Wrapped(j).safe
         /\ structural = Wrapped(j).errors

\* a single string was given for an array of objects: the error is at [0]
C20_Witness ==
  \E r \in GivenScalars :
    /\ r.type.of.k = "object"
    /\ r.input.t = "string"
    /\ "type" \in CodesAt(structural, r.path \o <<"[", "0", "]">>)

(* -------------------------------- C19 --------------------------------- *)
\* the plain object holding the values vs under root field j
Plain(j, vs) == Obj(sourceName(type.props[j]) :> Arr(vs))

\* the current call validates the flat source F and gives what the call on
\* the plain object gives
SameAsPlain(F, j, vs) ==
  (pc # "idle" /\ input = normalizeInput(F)) =>
    /\ data = structuralPass(type, Plain(j, vs), options).st.target
    /\ safeData = structuralPass(type, Plain(j, vs), options).st.safe
    /\ structural = structuralPass(type, Plain(j, vs), options).st.errors
    /\ (pc = "done" /\ calls = 0) =>
         result = returned(structuralPass(type, Plain(j, vs), options).st.target,
                           structuralPass(type, Plain(j, vs), options).st.errors)

\* C19 as stated: for a string array foo and any values v0..vn-1, n >= 0, the
\* flat source carrying them as foo[0]=v0, foo[1]=v1, ... or as n values under
\* the repeated key foo gives the same data and errors as {foo: [v0..vn-1]}.
C19_FlatAsPlain ==
  \A j \in StringArrays(type), vs \in SeqsUpTo(FlatValues, MaxLen) :
    /\ SameAsPlain(Indexed(sourceName(type.props[j]), vs), j, vs)
    /\ SameAsPlain(Repeated(sourceName(type.props[j]), vs), j, vs)

\* C19 amended: the same for at least one value, n >= 1 (a flat source with
\* no value has no key foo at all, so the field is missing, not empty).
C19_NonEmptyFlatAsPlain ==
  \A j \in StringArrays(type), vs \in SeqsUpTo(FlatValues, MaxLen) \ {<<>>} :
    /\ SameAsPlain(Indexed(sourceName(type.props[j]), vs), j, vs)
    /\ SameAsPlain(Repeated(sourceName(type.props[j]), vs), j, vs)

\* two values under indexed keys were validated: each arrived wrapped
C19_Witness ==
  \E j \in StringArrays(type), vs \in SeqsUpTo(FlatValues, MaxLen) :
    /\ Len(vs) = 2
    /\ pc = "done"
    /\ input = normalizeInput(Indexed(sourceName(type.props[j]), vs))
    /\ At(input, "object", sourceName(type.props[j])).v[1] = Arr(<<vs[1]>>)
    /\ result.data = Obj(type.props[j].key :> Arr(<<Str(StringOf(vs[1]).v),
                                                     Str(StringOf(vs[2]).v)>>))

(* -------------------------------- C13 --------------------------------- *)
\* what a push of the error appends at path p
Pushed(error, p) ==
  IF error.fn THEN Msg("push", "function", Stripped(p), error.text, "")
  ELSE Msg("push", "literal", <<>>, error.text, "")

\* C13: a push through the issues navigator at a location of the schema
\* appends the message under the path the validator uses for that location
\* (fields joined with '.', elements as '[i]', for every declared field
\* name), a function-valued push being called with that path without its
\* '[i]' segments; nothing else in the error map changes.
C13_PushPathIsValidatorPath ==
  [][\A x \in Pushes(type) :
       Push(x.chain, x.error) =>
         /\ LocationPath(type, x.chain, 1, <<>>) \in DOMAIN errors'
         /\ errors'[LocationPath(type, x.chain, 1, <<>>)].errors
              = (IF LocationPath(type, x.chain, 1, <<>>) \in DOMAIN errors
                 THEN errors[LocationPath(type, x.chain, 1, <<>>)].errors
                 ELSE <<>>)
                  \o <<Pushed(x.error, LocationPath(type, x.chain, 1, <<>>))>>
         /\ \A q \in DOMAIN errors' \ {LocationPath(type, x.chain, 1, <<>>)} :
              q \in DOMAIN errors /\ errors'[q] = errors[q]]_vars

(* -------------------------------- C15 --------------------------------- *)
\* the value the render data holds at the location a chain addresses
RECURSIVE RenderAt(_, _, _, _)
RenderAt(ty, chain, i, v) ==
  IF i > Len(chain) THEN v
  ELSE IF ty.k = "array"
  THEN RenderAt(ty.of, chain, i + 1,
                At(v, "array", CHOOSE n \in 0 .. DEFAULT_ARRAY_LIMIT :
                                 ToString(n) = chain[i][1]))
  ELSE RenderAt(ty.props[CHOOSE j \in 1 .. Len(ty.props) :
                           ty.props[j].key = chain[i]].type,
                chain, i + 1, At(v, "object", chain[i]))

\* the reads of the form helper at the end of a chain agree with the result
HelperReads(chain, p) ==
  /\ pathOfTarget(proxy(result.data, chain)) = p
  /\ errorsOfTarget(proxy(result.data, chain), result.errors)
       = (IF p \in DOMAIN result.errors THEN result.errors[p].errors ELSE <<>>)
  /\ valueOfTarget(proxy(result.data, chain), result.errors)
       = (IF ~IsNullish(RenderAt(type, chain, 1, result.data))
          THEN stringify(RenderAt(type, chain, 1, result.data))
          ELSE IF p \in DOMAIN result.errors THEN result.errors[p].value ELSE "")
  /\ isArray(RenderAt(type, chain, 1, result.data)) =>
       /\ Len(iterate(proxy(result.data, chain)))
            = Len(RenderAt(type, chain, 1, result.data).v)
       /\ \A i \in 1 .. Len(iterate(proxy(result.data, chain))) :
            /\ iterate(proxy(result.data, chain))[i].path
                 = p \o <<"[", ToString(i - 1), "]">>
            /\ iterate(proxy(result.data, chain))[i].value
                 = RenderAt(type, chain, 1, result.data).v[i]

\* C15: a navigator reached from form.helper(result) by a chain ending at
\* path p reads p as its path, the messages recorded under p (or none) as its
\* errors, the stringified render value at p or else the value recorded in the
\* errors at p as its value (the submitted text of a field that failed
\* coercion), and iterates over an array as the children p[0], p[1], ...
C15_HelperReads ==
  (pc = "done" /\ result.status = "returned") =>
    /\ \A chain \in ChainsOf(type, <<>>) :
         HelperReads(chain, LocationPath(type, chain, 1, <<>>))
    /\ \A r \in Reached :
         (r.type.k = "prim" /\ CoercionFailed(r) /\ r.input.t = "string"
            /\ calls = 0) =>
           \E chain \in ChainsOf(type, <<>>) :
             /\ LocationPath(type, chain, 1, <<>>) = r.path
             /\ valueOfTarget(proxy(result.data, chain), result.errors) = r.input.v

(* -------------------------------- C16 --------------------------------- *)
\* C16: once validate has returned, the error map of the result is never
\* changed again: nothing reachable through form.helper(result) adds or
\* alters an entry, and only the structural pass and the pushes made while
\* the callback runs write to it.
C16_ErrorsFrozenAfterReturn ==
  [][(pc = "done" /\ pc' = "done" /\ result.status = "returned")
       => result'.errors = result.errors]_vars

(* -------------------------------- C17 --------------------------------- *)
\* the structural pass of the current call made on its own
Lone == structuralPass(type, input, options).st

\* the fields whose input was missing or could not be coerced
Holes ==
  {r \in Reached : r.type.k # "array" /\ (IsNullish(r.input) \/ CoercionFailed(r))}

\* C17: the data validate returns is the render tree, a tree that shares no
\* container with the safe data handed to the callback: whatever the callback
\* assigns into its safe data, the data is what the structural pass filled
\* in, with undefined or null where the input was missing or invalid.
C17_RenderTreeApart ==
  /\ \A a \in DOMAIN refs.t, b \in DOMAIN refs.s : refs.t[a] # refs.s[b]
  /\ pc # "idle" => data = Lone.target
  /\ (pc = "done" /\ result.status = "returned") =>
       /\ result.data = Lone.target
       /\ \A r \in Holes : IsNullish(r.render)

\* the callback assigned into a nested container of its safe data, and the
\* call returned data with a hole
C17_Witness ==
  /\ pc = "done"
  /\ result.status = "returned"
  /\ Holes # {}
  /\ \E c \in AssignChains(type) :
       /\ c # <<>>
       /\ valueAt(type, c, 1, safeData) # valueAt(type, c, 1, Lone.safe)
       /\ TypeOf(valueAt(type, c, 1, result.data)) = "object"

(* -------------------------------- C18 --------------------------------- *)
\* the errors a call on its own returns when its callback made the pushes
RECURSIVE PushedTimes(_, _)
PushedTimes(errs, n) ==
  IF n = 0 THEN errs
  ELSE push(PushedTimes(errs, n - 1), proxy(input, <<>>), [fn |-> FALSE, text |-> "m"])

LoneErrors == PushedTimes(Lone.errors, pushes)

\* C18: calls of one validator do not influence each other: a call made
\* after another or from inside the callback of another works on the data
\* and errors it would have as the only call and returns them, the call
\* resumed after a nested one as well; the same input and options validated
\* twice give the same data and errors; the parsed schema stays as parsed.
C18_CallsIndependent ==
  /\ type \in {parseSchema(sch) : sch \in Schemas}
  /\ pc # "idle" => (data = Lone.target /\ structural = Lone.errors)
  /\ pc = "callback" => errors = LoneErrors
  /\ (pc = "done" /\ thrown = NoExc) =>
       result = returned(Lone.target, LoneErrors)
  /\ (pc = "done" /\ prev # NoFrame /\ prev.input = input
        /\ prev.options = options /\ prev.pushes = pushes) =>
       (result.data = prev.result.data /\ result.errors = prev.result.errors)

\* a call made from inside a callback that had pushed returned without errors
\* while the suspended call holds some
C18_Witness ==
  /\ pc = "done"
  /\ outer # NoFrame
  /\ outer.pushes = 1
  /\ outer.structural # <<>>
  /\ result.status = "returned"
  /\ result.errors = <<>>

(* -------------------------------- C22 --------------------------------- *)
\* the path names a location of the type: a field after a '.' (none at the
\* root), an element as '[i]'
RECURSIVE IsLocation(_, _, _)
IsLocation(ty, path, top) ==
  IF path = <<>> THEN TRUE
  ELSE IF ty.k = "prim" THEN FALSE
  ELSE IF ty.k = "array"
  THEN /\ Len(path) >= 3
       /\ path[1] = "[" /\ path[2] \in Numerals /\ path[3] = "]"
       /\ IsLocation(ty.of, SubSeq(path, 4, Len(path)), FALSE)
  ELSE /\ top \/ path[1] = "."
       /\ \E j \in 1 .. Len(ty.props) :
            /\ Len(path) >= Len(ty.props[j].key) + (IF top THEN 0 ELSE 1)
            /\ SubSeq(path, IF top THEN 1 ELSE 2,
                       Len(ty.props[j].key) + (IF top THEN 0 ELSE 1)) = ty.props[j].key
            /\ IsLocation(ty.props[j].type,
                          SubSeq(path, Len(ty.props[j].key) + (IF top THEN 1 ELSE 2),
                                 Len(path)),
                          FALSE)

\* C22: the structural pass stops at the first failure on a branch: a path
\* with a required, type or array error carries that one message only, no
\* path that extends it carries a structural error, and every path of the
\* error map as the pass left it names a location of the schema.
C22_StopsAtFirstFailure ==
  pc # "idle" =>
    \A p \in DOMAIN structural :
      /\ IsLocation(type, p, TRUE)
      /\ (CodesAt(structural, p) \cap StructuralCodes # {}) =>
           /\ Len(structural[p].errors) = 1
           /\ \A q \in DOMAIN structural : ~Under(p, q)

\* a container declared below the root was given a value of another kind,
\* and another branch failed on its own
C22_Witness ==
  /\ pc # "idle"
  /\ \E p \in DOMAIN structural, q \in DOMAIN structural :
       /\ "type" \in CodesAt(structural, p)
       /\ Len(p) >= 3
       /\ q # p
       /\ \E r \in Reached : r.path = p /\ r.type.k # "prim"

(* -------------------------------- C21 --------------------------------- *)
\* C21: in every entry of the error map that stands at a field the
\* validator reached, `value` is the text of the raw input the validator
\* read for that field (read under the alias where one is declared; empty
\* for a missing input and for one that is not a primitive), whether the
\* structural pass or a push through the navigator created the entry.
C21_ValueIsInputRead ==
  pc # "idle" =>
    \A r \in Reached :
      r.path \in DOMAIN errors => errors[r.path].value = stringify(r.input)

\* the same for the entries the structural pass created
C21_StructuralValueIsInputRead ==
  pc # "idle" =>
    \A r \in Reached :
      r.path \in DOMAIN structural =>
        structural[r.path].value = stringify(r.input)

====
